---- MODULE Spec2Model ----
(***************************************************************************)
(* A model of actspy.c: option parsing, the lookup of the own terminal,    *)
(* and the poll loop (baseline capture, interruptible sleep, scan of the   *)
(* utmp entries, termination check), together with the environment the     *)
(* program observes: the clock, the terminal devices and SIGINT.           *)
(*                                                                         *)
(* C strings are sequences of one-character strings.                       *)
(***************************************************************************)
EXTENDS Integers, Sequences, FiniteSets, TLC

(***************************************************************************)
(* Bounds of the model.                                                    *)
(***************************************************************************)
\* the clock runs over 0..MaxTime
MaxTime == 1
\* getopt delivers at most MaxArgs options
MaxArgs == 2
\* the poll loop starts at most MaxCycles iterations
MaxCycles == 2

(***************************************************************************)
(* Program constants.                                                      *)
(***************************************************************************)
EXIT_SUCCESS == 0
EXIT_FAILURE == 1
\* the status of a process killed by SIGSEGV, as a shell reports it
SEGV_STATUS == 139
\* sscanf's return value when the input ends before the first conversion
EOF == -1
\* utmp entry types
BOOT_TIME == 2
USER_PROCESS == 7
DEAD_PROCESS == 8

\* "no pointer": the value of a char * that is NULL
NullPtr == <<"(null)">>
\* the timestamps of a device node that does not exist
NoTime == -1

(***************************************************************************)
(* Strings.                                                                *)
(***************************************************************************)
\* the character codes strcmp compares
Code(c) ==
    CASE c = " " -> 32
      [] c = "/" -> 47
      [] c = "0" -> 48
      [] c = "1" -> 49
      [] c = "2" -> 50
      [] c = "B" -> 66
      [] c = "a" -> 97
      [] c = "b" -> 98
      [] c = "d" -> 100
      [] c = "e" -> 101
      [] c = "l" -> 108
      [] c = "o" -> 111
      [] c = "p" -> 112
      [] c = "v" -> 118
      [] c = "x" -> 120
      [] c = "~" -> 126
      [] OTHER -> 63

RECURSIVE strcmp_ci(_, _)
\* a comparison that ignores case (strcasecmp)
strcmp_ci(a, b) ==
    LET up(c) == IF Code(c) >= 97 /\ Code(c) <= 122 THEN Code(c) - 32 ELSE Code(c)
    IN  IF a = <<>> /\ b = <<>> THEN 0
        ELSE IF a = <<>> THEN 0 - up(Head(b))
        ELSE IF b = <<>> THEN up(Head(a))
        ELSE IF up(Head(a)) # up(Head(b)) THEN up(Head(a)) - up(Head(b))
        ELSE strcmp_ci(Tail(a), Tail(b))

RECURSIVE strcmp(_, _)
\* strcmp: 0 iff the two strings are equal, character by character
strcmp(a, b) ==
    IF a = <<>> /\ b = <<>> THEN 0
    ELSE IF a = <<>> THEN 0 - Code(Head(b))
    ELSE IF b = <<>> THEN Code(Head(a))
    ELSE IF Code(Head(a)) # Code(Head(b)) THEN Code(Head(a)) - Code(Head(b))
    ELSE strcmp(Tail(a), Tail(b))

RECURSIVE strstrlist(_, _)
\* strstrlist: the position in the NULL-terminated list haystack of the
\* first entry equal to needle, 0 (NULL) when the end of the list is reached
strstrlist(haystack, needle) ==
    IF haystack = <<>> THEN 0
    ELSE IF strcmp(Head(haystack), needle) = 0 THEN 1
    ELSE LET r == strstrlist(Tail(haystack), needle)
         IN  IF r = 0 THEN 0 ELSE r + 1

\* the test of lines 182-184: TRUE when the entry of ut_user is kept
UserFilter(watched_users, ut_user) ==
    ~(watched_users # <<>> /\ strstrlist(watched_users, ut_user) = 0)

(***************************************************************************)
(* Option parsing (options_parse).                                         *)
(***************************************************************************)
IsSpace(c) == c = " "
IsDigit(c) == Code(c) >= 48 /\ Code(c) <= 57

RECURSIVE SkipSpace(_)
\* %ld first skips the white space in front of the number
SkipSpace(s) == IF s # <<>> /\ IsSpace(Head(s)) THEN SkipSpace(Tail(s)) ELSE s

RECURSIVE ReadDigits(_, _)
\* the value of the longest run of digits at the head of s
ReadDigits(s, acc) ==
    IF s # <<>> /\ IsDigit(Head(s))
    THEN ReadDigits(Tail(s), acc * 10 + (Code(Head(s)) - 48))
    ELSE acc

\* sscanf(optarg, "%ld", &poll_interval) on an unsigned argument: the number
\* of conversions made (EOF when the input ends before the number starts) and
\* the value left in poll_interval, which a failed conversion does not touch
sscanf_ld(optarg, old) ==
    LET r == SkipSpace(optarg)
    IN  IF r = <<>> THEN [n |-> EOF, val |-> old]
        ELSE IF ~IsDigit(Head(r)) THEN [n |-> 0, val |-> old]
        ELSE [n |-> 1, val |-> ReadDigits(r, 0)]

\* the test of line 110: -t is refused iff sscanf converted nothing
bad_interval(r) == r.n = 0

\* lines 74-80: the defaults
DefaultOptions ==
    [poll_interval |-> 1, watch_input |-> 0, watch_output |-> 0, bell |-> 0,
     watched_users |-> NullPtr]

\* what one getopt call delivers: the option character, optarg, optopt
Opt(c, arg, optopt) == [c |-> c, arg |-> arg, optopt |-> optopt]

\* one item of the standard output or of the error stream
Item(kind, ts, line, user) == [kind |-> kind, ts |-> ts, line |-> line, user |-> user]

Result(ret, o, out, err) == [ret |-> ret, options |-> o, out |-> out, err |-> err]

RECURSIVE getopt_loop(_, _)
\* the while loop of lines 86-129 over the options getopt delivers
getopt_loop(opts, o) ==
    IF opts = <<>> THEN Result(0, o, <<>>, <<>>)
    ELSE LET g == Head(opts)
         IN  CASE g.c = "b" -> getopt_loop(Tail(opts), [o EXCEPT !.bell = 1])
               [] g.c = "h" -> Result(1, o, <<Item("usage", <<>>, <<>>, <<>>)>>, <<>>)
               [] g.c = "i" -> getopt_loop(Tail(opts), [o EXCEPT !.watch_input = 1])
               [] g.c = "o" -> getopt_loop(Tail(opts), [o EXCEPT !.watch_output = 1])
               [] g.c = "t" ->
                    LET r == sscanf_ld(g.arg, o.poll_interval)
                    IN  IF bad_interval(r)
                        THEN Result(-1, o, <<>>,
                                    <<Item("Invalid timestamp option -t", <<>>, g.arg, <<>>)>>)
                        ELSE getopt_loop(Tail(opts), [o EXCEPT !.poll_interval = r.val])
               [] OTHER ->
                    Result(-1, o, <<>>,
                           <<Item(IF g.optopt = "t"
                                  THEN "Option requires an argument"
                                  ELSE "Unknown command line option",
                                  <<>>, <<g.optopt>>, <<>>)>>)

\* options_parse: the defaults, the getopt loop, then the rest of the
\* command line as the watched users
options_parse(argv) ==
    LET r == getopt_loop(argv.opts, DefaultOptions)
    IN  IF r.ret = 0
        THEN [r EXCEPT !.options.watched_users = argv.users]
        ELSE r

(***************************************************************************)
(* The inputs: command lines, the utmp file, the terminals.                *)
(***************************************************************************)
bob == <<"b", "o", "b">>
Bob == <<"B", "o", "b">>
al == <<"a", "l">>
p0 == <<"p", "0">>
p1 == <<"p", "1">>

\* the arguments given to -t
TArgs == {<<"0">>, <<"2">>, <<>>, <<" ">>, <<"x">>}

\* what getopt can deliver for the option string "bhiot:"
OptTokens ==
    {Opt(c, <<>>, "") : c \in {"b", "h", "i", "o"}}
    \cup {Opt("t", a, "") : a \in TArgs}
    \cup {Opt("?", <<>>, x) : x \in {"t", "x"}}

OptSeqs == UNION {[1..n -> OptTokens] : n \in 0..MaxArgs}

\* the USER... arguments
UserLists == {<<>>, <<al, bob>>}

Utmp(type, line, user) == [ut_type |-> type, ut_line |-> line, ut_user |-> user]

\* the utmp file: the boot record, the record of a session that has ended,
\* and two logins
UtmpTables ==
    {<<Utmp(BOOT_TIME, <<"~">>, <<>>), Utmp(DEAD_PROCESS, p1, al),
       Utmp(USER_PROCESS, p0, bob), Utmp(USER_PROCESS, p1, Bob)>>}

\* the terminal devices under /dev
DevLines == {p0, p1}

Times == 0..MaxTime

(***************************************************************************)
(* The state.                                                              *)
(***************************************************************************)
VARIABLES
    pc,                   \* where main is
    argv,                 \* the command line, until it is parsed
    options,              \* struct options
    my_tty_path,          \* ttyname(STDOUT_FILENO)
    last_poll,            \* time_t last_poll
    last_poll_string,     \* char * last_poll_string
    signal_caught_sigint, \* the flag the handler sets
    wake_at,              \* when the sleep in progress ends
    utmp,                 \* the utmp file
    run,                  \* what is fixed for a whole behaviour (see Start)
    idx,                  \* number of utmp entries getutxent has returned
    utx,                  \* the utmp file as setutxent/endutxent leave it
    out,                  \* standard output
    err,                  \* the error stream
    exit_status,          \* the status the process ended with
    now,                  \* the system clock, in seconds
    dev,                  \* the device nodes: existence, st_atime, st_mtime
    cycle,                \* number of loop iterations started
    prev_poll,            \* last_poll of the iteration before (history)
    intr,                 \* when SIGINT was delivered (history)
    last,                 \* what the latest iteration of the scan did (history)
    why,                  \* what each report line was printed for (history,
                          \* recorded when run.history)
    quiet                 \* no terminal was active since the first baseline
                          \* (history, recorded when run.history)

vars == <<pc, argv, options, my_tty_path, last_poll, last_poll_string,
          signal_caught_sigint, wake_at, utmp, run, idx, utx, out, err, exit_status,
          now, dev, cycle, prev_poll, intr, last, why, quiet>>

\* the process has not ended
NoStatus == -1

\* no iteration of the scan has run since setutxent
NoIteration ==
    [ran |-> FALSE, probed |-> FALSE, stat_ok |-> FALSE, atime |-> NoTime,
     mtime |-> NoTime, emitted |-> FALSE, bell |-> FALSE]

\* no SIGINT has been delivered
NoInterrupt == [limit |-> 0, in_sleep |-> FALSE]

\* a time before the clock of the model starts
LongAgo == NoTime

\* the state after construction, for the command lines argvs, for what runs
\* fixes for the behaviour (whether the utmp file can be opened, the second
\* at which the clock stops, whether why and quiet are recorded) and for the
\* time used at which every terminal was last used
Start(argvs, runs, used) ==
    /\ pc = "parse"
    /\ argv \in argvs
    /\ options = DefaultOptions
    /\ my_tty_path = NullPtr
    /\ last_poll = 0
    /\ last_poll_string = NullPtr
    /\ signal_caught_sigint = 0
    /\ wake_at = 0
    /\ utmp \in UtmpTables
    /\ run \in runs
    /\ idx = 0
    /\ utx = "closed"
    /\ out = <<>>
    /\ err = <<>>
    /\ exit_status = NoStatus
    /\ now = 0
    /\ dev = [d \in DevLines |-> [exists |-> TRUE, atime |-> used, mtime |-> used]]
    /\ cycle = 0
    /\ prev_poll = 0
    /\ intr = NoInterrupt
    /\ last = NoIteration
    /\ why = <<>>
    /\ quiet = TRUE

\* every command line; the utmp file can be opened
Init ==
    Start([opts : OptSeqs, users : UserLists],
          {[utmp_readable |-> TRUE, horizon |-> MaxTime, history |-> FALSE]}, 0)

\* as Init, and the utmp file may be one that cannot be opened
InitStore ==
    Start([opts : OptSeqs, users : UserLists],
          [utmp_readable : BOOLEAN, horizon : {MaxTime}, history : {FALSE}], 0)

\* the command lines of one option that says what to watch: -i, -o
WatchSeqs == {s \in OptSeqs : Len(s) = 1 /\ s[1].c \in {"i", "o"}}

\* command lines that only say what to watch, for every user; a clock that
\* runs two seconds longer, the history recorded, and terminals that were
\* idle for long
InitHist ==
    Start([opts : WatchSeqs, users : {<<>>}],
          {[utmp_readable |-> TRUE, horizon |-> MaxTime + 2, history |-> TRUE]},
          LongAgo)

(***************************************************************************)
(* main, up to the loop.                                                   *)
(***************************************************************************)
\* lines 140-143: parse the options; any non-zero result ends the process
\* with EXIT_FAILURE
ParseOptions ==
    /\ pc = "parse"
    /\ LET r == options_parse(argv)
       IN  /\ out' = out \o r.out
           /\ err' = err \o r.err
           /\ options' = r.options
           /\ IF r.ret # 0
              THEN pc' = "done" /\ exit_status' = EXIT_FAILURE
              ELSE pc' = "ttyname" /\ exit_status' = exit_status
    /\ argv' = [opts |-> <<>>, users |-> <<>>]
    /\ UNCHANGED <<my_tty_path, last_poll, last_poll_string, signal_caught_sigint,
                   wake_at, utmp, run, idx, utx, now, dev, cycle, prev_poll, intr, last, why, quiet>>

\* "/dev/" in front of the line: lines 165-166
DevPrefix == <<"/", "d", "e", "v", "/">>

\* what ttyname(STDOUT_FILENO) can return: the path of a terminal, or NULL
\* when the standard output is no terminal
TtyNames == {NullPtr} \cup {DevPrefix \o d : d \in DevLines}

\* line 146
TtyName ==
    /\ pc = "ttyname"
    /\ my_tty_path' \in TtyNames
    /\ pc' = "baseline"
    /\ UNCHANGED <<argv, options, last_poll, last_poll_string, signal_caught_sigint,
                   wake_at, utmp, run, idx, utx, out, err, exit_status, now, dev, cycle, prev_poll, intr, last, why, quiet>>

(***************************************************************************)
(* The poll loop.                                                          *)
(***************************************************************************)
Digit(n) == <<"0", "1", "2", "3", "4", "5", "6", "7", "8", "9">>[n + 1]

\* ctime of a time within the first minute of the epoch (UTC): the fixed
\* 24 characters and the newline that ends them
ctime(t) ==
    <<"T", "h", "u", " ", "J", "a", "n", " ", " ", "1", " ",
      "0", "0", ":", "0", "0", ":", Digit((t \div 10) % 6), Digit(t % 10), " ",
      "1", "9", "7", "0", "\n">>

\* line 154: the last character becomes the end of the string
wipe_newline(str) == SubSeq(str, 1, Len(str) - 1)

\* the rendering of the timestamp of the iteration before
poll_string_stale(t, old) == wipe_newline(ctime(old))

\* lines 152-154: the rendering of the new timestamp, without the newline
poll_string(t, old) == wipe_newline(ctime(t))

\* the value line 151 stores, with the operands of a subtraction swapped
time_now_swapped(clock, interval) == interval - clock

\* line 151: last_poll = time(NULL)
time_now(clock, interval) == clock

\* every terminal was last used before the second t
Idle(t) == \A d \in DevLines : dev[d].atime < t /\ dev[d].mtime < t

\* lines 151-155: capture the baseline and go to sleep
Baseline ==
    /\ pc = "baseline"
    /\ cycle < MaxCycles
    /\ cycle' = cycle + 1
    /\ prev_poll' = last_poll
    /\ last_poll' = time_now(now, options.poll_interval)
    /\ last_poll_string' = poll_string(last_poll', last_poll)
    \* sleep takes an unsigned int; the intervals parsed here are unsigned
    /\ wake_at' = now + options.poll_interval
    /\ pc' = "sleep"
    /\ quiet' = IF run.history /\ cycle = 0 THEN Idle(last_poll') ELSE quiet
    /\ UNCHANGED <<argv, options, my_tty_path, signal_caught_sigint, utmp, run, idx, utx,
                   out, err, exit_status, now, dev, intr, last, why>>

\* line 155: the sleep ends when its time has passed
SleepReturn ==
    /\ pc = "sleep"
    /\ now >= wake_at
    /\ pc' = "setutxent"
    /\ UNCHANGED <<argv, options, my_tty_path, last_poll, last_poll_string,
                   signal_caught_sigint, wake_at, utmp, run, idx, utx, out, err, exit_status,
                   now, dev, cycle, prev_poll, intr, last, why, quiet>>

\* a sleep that is restarted after the handler has run
resume_restarted(p) == p

\* where main continues when the handler returns: a sleep in progress
\* returns at once (line 155, "or SIGINT"), anything else goes on
resume(p) == IF p = "sleep" THEN "setutxent" ELSE p

\* a handler that flips the flag
signal_sigint_toggle(flag) == 1 - flag

\* lines 41-44: the handler sets the flag
signal_sigint(flag) == 1

\* SIGINT is delivered (the handler is installed at line 138)
Interrupt ==
    /\ pc \notin {"done", "crashed"}
    /\ signal_caught_sigint = 0 \/ pc = "sleep"
    /\ signal_caught_sigint' = signal_sigint(signal_caught_sigint)
    /\ pc' = resume(pc)
    \* limit: the iteration that is current at the first delivery, which is
    \* the next one to start if none is under way
    /\ intr' = IF signal_caught_sigint = 0
               THEN [limit |-> IF pc \in {"parse", "ttyname", "baseline"}
                               THEN cycle + 1 ELSE cycle,
                     in_sleep |-> pc = "sleep"]
               ELSE [intr EXCEPT !.in_sleep = TRUE]
    /\ UNCHANGED <<argv, options, my_tty_path, last_poll, last_poll_string, wake_at,
                   utmp, run, idx, utx, out, err, exit_status, now, dev, cycle, prev_poll, last, why, quiet>>

\* line 157: setutxent opens and rewinds the utmp file; it returns nothing,
\* and when the file cannot be opened getutxent (line 159) finds no entry
SetUtxEnt ==
    /\ pc = "setutxent"
    /\ utx' = IF run.utmp_readable THEN "open" ELSE "failed"
    /\ idx' = 0
    /\ last' = NoIteration
    /\ pc' = "scan"
    /\ UNCHANGED <<argv, options, my_tty_path, last_poll, last_poll_string,
                   signal_caught_sigint, wake_at, utmp, run, out, err, exit_status, now,
                   dev, cycle, prev_poll, intr, why, quiet>>

UT_LINESIZE == 32

Min(a, b) == IF a < b THEN a ELSE b

\* strncat: dst followed by at most n characters of src
strncat(dst, src, n) == dst \o SubSeq(src, 1, Min(Len(src), n))

\* the test of line 161 that lets through all but the boot record
is_user_process_loose(e) == e.ut_type # BOOT_TIME

\* line 161
is_user_process(e) == e.ut_type = USER_PROCESS

\* the comparison of line 168 made with the bare line, without "/dev/"
is_my_tty_bare(my, tty_path) ==
    strcmp(my, SubSeq(tty_path, Len(DevPrefix) + 1, Len(tty_path))) = 0

\* line 168
is_my_tty(my, tty_path) == strcmp(my, tty_path) = 0

\* what stat (line 177, its result unchecked) leaves in tty_stat: the times of
\* the device, or, when the call fails, whatever the memory held
StatOutcomes(line) ==
    IF line \in DevLines /\ dev[line].exists
    THEN {[ok |-> TRUE, atime |-> dev[line].atime, mtime |-> dev[line].mtime]}
    ELSE {[ok |-> FALSE, atime |-> a, mtime |-> m] : a \in Times, m \in Times}

\* the times the device really has when it is probed
TrueTimes(line) ==
    IF line \in DevLines THEN dev[line] ELSE [exists |-> FALSE, atime |-> NoTime, mtime |-> NoTime]

\* the test of lines 178-179 with > for >=
reportable_strict(o, st, lp) ==
    \/ o.watch_input # 0 /\ st.atime > lp
    \/ o.watch_output # 0 /\ st.mtime > lp

\* the test of lines 178-179
reportable(o, st, lp) ==
    \/ o.watch_input # 0 /\ st.atime >= lp
    \/ o.watch_output # 0 /\ st.mtime >= lp

\* the line first and the bell after it
report_bell_after(o, ts, e) ==
    <<Item("line", ts, e.ut_line, e.ut_user)>>
    \o (IF o.bell # 0 THEN <<Item("bell", <<>>, <<>>, <<>>)>> ELSE <<>>)

\* lines 188-195: the bell, if requested, then the line
report(o, ts, e) ==
    (IF o.bell # 0 THEN <<Item("bell", <<>>, <<>>, <<>>)>> ELSE <<>>)
    \o <<Item("line", ts, e.ut_line, e.ut_user)>>

\* lines 159-197: one iteration of the while loop, from getutxent to the
\* end of the loop body
ScanEntry ==
    /\ pc = "scan"
    /\ utx = "open"
    /\ idx < Len(utmp)
    /\ idx' = idx + 1
    /\ utx' = utx
    /\ LET e == utmp[idx + 1]
           tty_path == strncat(DevPrefix, e.ut_line, 6 + UT_LINESIZE)
           skipped == [NoIteration EXCEPT !.ran = TRUE]
       IN  IF ~is_user_process(e)
           THEN /\ last' = skipped
                /\ UNCHANGED <<pc, out, exit_status, why>>
           ELSE IF my_tty_path = NullPtr
           THEN \* strcmp reads through the null pointer
                /\ pc' = "crashed"
                /\ exit_status' = SEGV_STATUS
                /\ last' = skipped
                /\ UNCHANGED <<out, why>>
           ELSE IF is_my_tty(my_tty_path, tty_path)
           THEN /\ last' = skipped
                /\ UNCHANGED <<pc, out, exit_status, why>>
           ELSE \E st \in StatOutcomes(e.ut_line) :
                  LET emit == /\ reportable(options, st, last_poll)
                              /\ UserFilter(options.watched_users, e.ut_user)
                  IN  /\ out' = IF emit
                                THEN out \o report(options, last_poll_string, e)
                                ELSE out
                      /\ why' = IF emit /\ run.history
                                THEN Append(why, [cycle |-> cycle, entry |-> idx + 1,
                                                  ok |-> st.ok,
                                                  atime |-> TrueTimes(e.ut_line).atime,
                                                  mtime |-> TrueTimes(e.ut_line).mtime,
                                                  poll |-> last_poll])
                                ELSE why
                      /\ last' = [ran |-> TRUE, probed |-> TRUE, stat_ok |-> st.ok,
                                  atime |-> TrueTimes(e.ut_line).atime,
                                  mtime |-> TrueTimes(e.ut_line).mtime,
                                  emitted |-> emit,
                                  bell |-> emit /\ options.bell # 0]
                      /\ UNCHANGED <<pc, exit_status>>
    /\ UNCHANGED <<argv, options, my_tty_path, last_poll, last_poll_string,
                   signal_caught_sigint, wake_at, utmp, run, err, now, dev, cycle,
                   prev_poll, intr, quiet>>

\* lines 159 and 198: getutxent returns NULL, at the end of the file or
\* because there is no open file; endutxent closes what is open
EndScan ==
    /\ pc = "scan"
    /\ utx = "failed" \/ idx = Len(utmp)
    /\ utx' = "closed"
    /\ last' = NoIteration
    /\ pc' = "check"
    /\ UNCHANGED <<argv, options, my_tty_path, last_poll, last_poll_string,
                   signal_caught_sigint, wake_at, utmp, run, idx, out, err, exit_status,
                   now, dev, cycle, prev_poll, intr, why, quiet>>

\* lines 200-201: leave the loop once the flag is set; main then ends
LoopCheck ==
    /\ pc = "check"
    /\ IF signal_caught_sigint # 0
       THEN pc' = "done" /\ exit_status' = EXIT_SUCCESS
       ELSE pc' = "baseline" /\ exit_status' = exit_status
    /\ UNCHANGED <<argv, options, my_tty_path, last_poll, last_poll_string,
                   signal_caught_sigint, wake_at, utmp, run, idx, utx, out, err, now, dev,
                   cycle, prev_poll, intr, last, why, quiet>>

(***************************************************************************)
(* The environment.                                                        *)
(***************************************************************************)
Running == pc \in {"baseline", "sleep", "setutxent", "scan", "check"}

\* a second passes
Tick ==
    /\ Running
    /\ now < run.horizon
    /\ now' = now + 1
    /\ UNCHANGED <<pc, argv, options, my_tty_path, last_poll, last_poll_string,
                   signal_caught_sigint, wake_at, utmp, run, idx, utx, out, err, exit_status,
                   dev, cycle, prev_poll, intr, last, why, quiet>>

\* a terminal receives input: its st_atime becomes the current time
Input ==
    /\ Running
    /\ \E d \in DevLines :
         /\ dev[d].exists
         /\ dev[d].atime # now
         /\ dev' = [dev EXCEPT ![d].atime = now]
    /\ quiet' = IF run.history THEN FALSE ELSE quiet
    /\ UNCHANGED <<pc, argv, options, my_tty_path, last_poll, last_poll_string,
                   signal_caught_sigint, wake_at, utmp, run, idx, utx, out, err, exit_status,
                   now, cycle, prev_poll, intr, last, why>>

\* a terminal puts out data: its st_mtime becomes the current time
Output ==
    /\ Running
    /\ \E d \in DevLines :
         /\ dev[d].exists
         /\ dev[d].mtime # now
         /\ dev' = [dev EXCEPT ![d].mtime = now]
    /\ quiet' = IF run.history THEN FALSE ELSE quiet
    /\ UNCHANGED <<pc, argv, options, my_tty_path, last_poll, last_poll_string,
                   signal_caught_sigint, wake_at, utmp, run, idx, utx, out, err, exit_status,
                   now, cycle, prev_poll, intr, last, why>>

\* the device node of a terminal disappears while its utmp entry stays
Vanish ==
    /\ Running
    /\ \E d \in DevLines :
         /\ dev[d].exists
         /\ dev' = [dev EXCEPT ![d] = [exists |-> FALSE, atime |-> NoTime, mtime |-> NoTime]]
    /\ UNCHANGED <<pc, argv, options, my_tty_path, last_poll, last_poll_string,
                   signal_caught_sigint, wake_at, utmp, run, idx, utx, out, err, exit_status,
                   now, cycle, prev_poll, intr, last, why, quiet>>

Next ==
    \/ ParseOptions
    \/ TtyName
    \/ Baseline
    \/ SleepReturn
    \/ Interrupt
    \/ SetUtxEnt
    \/ ScanEntry
    \/ EndScan
    \/ LoopCheck
    \/ Tick
    \/ Input
    \/ Output
    \/ Vanish

Spec == Init /\ [][Next]_vars

SpecStore == InitStore /\ [][Next]_vars

SpecHist == InitHist /\ [][Next]_vars

(***************************************************************************)
(* The properties.                                                         *)
(***************************************************************************)
Range(f) == {f[i] : i \in DOMAIN f}

\* the utmp entry the latest iteration of the scan worked on
Entry == utmp[idx]

\* the latest iteration worked on the entry of the own terminal
OnOwnTty ==
    /\ last.ran
    /\ Entry.ut_type = USER_PROCESS
    /\ DevPrefix \o Entry.ut_line = my_tty_path

\* the lines written to the standard output
Lines == {i \in DOMAIN out : out[i].kind = "line"}

\* C1: a report line is emitted for a session only if a watched dimension of
\* its device carries a time at or after the previous-poll timestamp of the
\* cycle; with neither -i nor -o no line is emitted at all.
C1_ReportOnlyIfActive ==
    /\ last.emitted =>
         \/ options.watch_input # 0 /\ last.atime >= last_poll
         \/ options.watch_output # 0 /\ last.mtime >= last_poll
    /\ (options.watch_input = 0 /\ options.watch_output = 0) => Lines = {}

\* C2: no report line (and no bell) is ever emitted for a session whose
\* device path is the path of the own terminal, whatever the flags, the user
\* filter and the times of the device.
C2_OwnTtyNeverReported ==
    /\ \A i \in Lines : DevPrefix \o out[i].line # my_tty_path
    /\ OnOwnTty => ~last.emitted /\ ~last.bell

\* the own terminal was scanned while active, watched and passing the filter
C2_Witness ==
    /\ OnOwnTty
    /\ options.watch_input # 0 /\ options.bell # 0
    /\ options.watched_users = <<>>
    /\ dev[Entry.ut_line].exists
    /\ dev[Entry.ut_line].atime >= last_poll
    /\ dev[Entry.ut_line].mtime >= last_poll

\* the user names that occur
UserNames == {bob, Bob, al} \cup {utmp[i].ut_user : i \in DOMAIN utmp}

\* C3: the user filter passes iff the configured list is empty or the owner
\* is, character for character, one of its members; so every report line
\* carries an owner that the list allows.
C3_UserFilterExact ==
    pc \notin {"parse", "done"} =>
        /\ \A s \in UserNames :
             UserFilter(options.watched_users, s)
               <=> (options.watched_users = <<>> \/ s \in Range(options.watched_users))
        /\ \A i \in Lines :
             options.watched_users = <<>> \/ out[i].user \in Range(options.watched_users)

\* a session that differs from a watched user only in case was active on a
\* readable device and was not reported
C3_Witness ==
    /\ last.probed /\ last.stat_ok /\ ~last.emitted
    /\ options.watch_input # 0 /\ last.atime >= last_poll
    /\ options.watched_users = <<al, bob>>
    /\ Entry.ut_user = Bob

\* C4: once SIGINT has been delivered the program runs at most the rest of
\* the current cycle, and when it has ended it has ended with success.
C4_InterruptEndsWithSuccess ==
    (signal_caught_sigint # 0 /\ cycle >= 1) =>
        /\ cycle <= intr.limit
        /\ pc # "crashed"
        /\ pc = "done" => exit_status = EXIT_SUCCESS

\* C5: a session whose device could not be probed gets no report line and
\* no bell in that cycle.
C5_FailedProbeNotReported ==
    (last.probed /\ ~last.stat_ok) => (~last.emitted /\ ~last.bell)

\* C6: no poll cycle runs with an interval below 1 (-t 0 and a -t that is
\* no number end the process before the loop).
C6_IntervalAtLeastOne ==
    cycle >= 1 => options.poll_interval >= 1

\* the usage text has been printed
UsagePrinted == \E i \in DOMAIN out : out[i].kind = "usage"

\* C7: with -h the usage text is printed, no poll cycle runs and the process
\* ends with status 0.
C7_HelpExitsWithSuccess ==
    UsagePrinted => (cycle = 0 /\ pc = "done" /\ exit_status = EXIT_SUCCESS)

C9_NoTtyTolerated ==
    my_tty_path = NullPtr => pc # "crashed"

\* C10: with a clock that never goes back, the previous-poll timestamp of a
\* cycle is at least the one of the cycle before.
C10_MonotoneBaseline ==
    cycle >= 2 => last_poll >= prev_poll

\* a second cycle has captured a later baseline than the first
C10_Witness ==
    /\ cycle >= 2
    /\ last_poll > prev_poll
    /\ prev_poll >= 0

\* C11: with -i only, a session that is not on the own terminal, whose probe
\* succeeds and whose owner passes the user filter is reported when the
\* last-input time of its device equals the previous-poll timestamp of the
\* cycle: the boundary is inclusive.
C11_InclusiveBoundary ==
    ( /\ last.probed /\ last.stat_ok
      /\ options.watch_input # 0 /\ options.watch_output = 0
      /\ last.atime = last_poll
      /\ UserFilter(options.watched_users, Entry.ut_user) )
    => last.emitted

\* such a session was probed, with the output time of its device older than
\* the timestamp, and its line was printed
C11_Witness ==
    /\ last.probed /\ last.stat_ok /\ last.emitted
    /\ options.watch_input # 0 /\ options.watch_output = 0
    /\ last.atime = last_poll
    /\ last.mtime < last_poll
    /\ out[Len(out)].line = Entry.ut_line

\* C12: two consecutive cycles during which no terminal shows activity (every
\* device time is older than the first baseline and none changes) produce no
\* report line in either cycle.
C12_QuietCyclesSilent ==
    (run.history /\ quiet /\ cycle >= 2) => Lines = {}

\* the utmp file could not be opened for a scan that is over
ScanWithoutStore ==
    /\ ~run.utmp_readable
    /\ cycle >= 1
    /\ pc \in {"check", "done"} \/ cycle >= 2

\* C13: when the utmp file cannot be opened for a scan, the program ends with
\* a failure status and a diagnostic, instead of going on polling as if there
\* were no sessions.
C13_StoreFailureFatal ==
    ScanWithoutStore =>
        /\ pc = "done"
        /\ exit_status = EXIT_FAILURE
        /\ err # <<>>

\* the logins in the utmp file
UserEntries == {k \in DOMAIN utmp : utmp[k].ut_type = USER_PROCESS}

\* the lines printed for the utmp entry k in the cycles from c on
ReportsSince(k, c) == {i \in DOMAIN why : why[i].entry = k /\ why[i].cycle >= c}

\* the scan of the current cycle is over, nothing has interrupted the
\* program, and the readable device of the login k, which is not on the own
\* terminal and passes the user filter, carries in a watched dimension a time
\* set during the cycle before (at or after its baseline, before the current
\* one), for which neither that cycle nor the current one has printed a line
Missed(k) ==
    /\ pc = "check" /\ signal_caught_sigint = 0 /\ cycle >= 2
    /\ my_tty_path # NullPtr
    /\ ~(DevPrefix \o utmp[k].ut_line = my_tty_path)
    /\ UserFilter(options.watched_users, utmp[k].ut_user)
    /\ dev[utmp[k].ut_line].exists
    /\ \/ /\ options.watch_input # 0
          /\ prev_poll <= dev[utmp[k].ut_line].atime
          /\ dev[utmp[k].ut_line].atime < last_poll
       \/ /\ options.watch_output # 0
          /\ prev_poll <= dev[utmp[k].ut_line].mtime
          /\ dev[utmp[k].ut_line].mtime < last_poll
    /\ ReportsSince(k, cycle - 1) = {}

\* C14: no activity is missed while the program keeps running: a time set in
\* a watched dimension of a readable device, for a login that is not on the
\* own terminal and passes the filter, gets a line from the scan of the cycle
\* in which it falls or from the scan of the next one, also when it falls
\* after the probe of the session and before the next baseline.
C14_NoActivityMissed ==
    run.history => \A k \in UserEntries : ~Missed(k)

\* the two lines were printed for the same entry in different cycles on
\* successful probes, and no watched time of the device changed in between
SameActivity(v, w) ==
    /\ v.entry = w.entry /\ v.cycle < w.cycle
    /\ v.ok /\ w.ok
    /\ options.watch_input # 0 => v.atime = w.atime
    /\ options.watch_output # 0 => v.mtime = w.mtime

\* C15: a single activity is reported at most once: with an interval of at
\* least 1, a time that a device takes and keeps causes report lines in at
\* most one cycle, also when it is the second of the next baseline.
C15_ReportedOnce ==
    (run.history /\ options.poll_interval >= 1) =>
        \A i, j \in DOMAIN why : ~SameActivity(why[i], why[j])

\* the 24 characters ctime gives for the second t
Rendering(t) == SubSeq(ctime(t), 1, 24)

\* what a step has added to the standard output
Added == SubSeq(out', Len(out) + 1, Len(out'))

\* C16: the previous-poll timestamp and its rendering are updated exactly once
\* per cycle, by the step that starts the iteration and goes to sleep, and by
\* no step of the sleep or of the scan; every report line carries the
\* rendering of the timestamp the comparisons of its cycle use.
C16_PollStateOncePerCycle ==
    [][ /\ (last_poll' # last_poll \/ last_poll_string' # last_poll_string)
            => (pc = "baseline" /\ pc' = "sleep")
        /\ cycle' # cycle
            => /\ pc = "baseline" /\ pc' = "sleep" /\ cycle' = cycle + 1
               /\ last_poll' = now
               /\ last_poll_string' = Rendering(last_poll')
        /\ \A i \in DOMAIN Added :
             Added[i].kind = "line" => Added[i].ts = Rendering(last_poll)
      ]_vars

\* a line of the second cycle carries the timestamp of that cycle, which is
\* not the one of the first
C16_Witness ==
    /\ cycle = 2 /\ last_poll # prev_poll
    /\ last.emitted
    /\ out[Len(out)].ts = Rendering(last_poll)
    /\ \E i \in Lines : out[i].ts = Rendering(prev_poll)

\* C17: in every cycle the utmp file is opened after the sleep, read to its
\* end and closed before the loop condition is tested and before the next
\* baseline, so that it is open neither during a sleep nor when the process
\* ends.
C17_OpenDrainClose ==
    /\ pc = "scan" => utx = "open"
    /\ pc = "check" => idx = Len(utmp)
    /\ pc \in {"baseline", "sleep", "setutxent", "check", "done", "crashed"}
         => utx # "open"

\* C18: the delivery of SIGINT, wherever main is, sets the flag and changes
\* nothing else of the program: not the poll state, not the configuration,
\* not the output; and no step clears the flag once it is set.
C18_InterruptOnlySetsFlag ==
    [][ /\ signal_caught_sigint # 0 => signal_caught_sigint' = signal_caught_sigint
        /\ Interrupt =>
             /\ signal_caught_sigint' = 1
             /\ UNCHANGED <<argv, options, my_tty_path, last_poll, last_poll_string,
                            utmp, idx, utx, out, err, exit_status, cycle>>
      ]_vars

\* SIGINT was delivered during the sleep of the second cycle, and the scan
\* that follows prints
C18_Witness ==
    /\ signal_caught_sigint = 1
    /\ intr.in_sleep /\ cycle = 2
    /\ last.emitted

\* C19: no report line is printed for a utmp entry whose type is not
\* USER_PROCESS, whatever the times of its device and its user name.
C19_OnlyUserProcessReported ==
    /\ (last.ran /\ Entry.ut_type # USER_PROCESS) => (~last.probed /\ ~last.emitted)
    /\ \A i \in Lines :
         \E k \in DOMAIN utmp :
           /\ utmp[k].ut_type = USER_PROCESS
           /\ utmp[k].ut_line = out[i].line
           /\ utmp[k].ut_user = out[i].user

\* the entry of a session that has ended was read while its device, which is
\* not the own terminal, was active and watched, and its user passed the filter
C19_Witness ==
    /\ last.ran /\ Entry.ut_type = DEAD_PROCESS
    /\ my_tty_path # NullPtr
    /\ DevPrefix \o Entry.ut_line # my_tty_path
    /\ options.watch_input # 0
    /\ dev[Entry.ut_line].exists
    /\ dev[Entry.ut_line].atime >= last_poll
    /\ UserFilter(options.watched_users, Entry.ut_user)
    /\ options.watched_users # <<>>

\* C20: an iteration of the scan that reports a session prints exactly one
\* line for it, preceded by exactly one bell when -b is given and by none
\* otherwise; an iteration that skips its entry prints nothing.
C20_OneLineOneBell ==
    [][ (pc = "scan" /\ idx' = idx + 1) =>
          Added = IF last'.emitted
                  THEN (IF options.bell # 0
                        THEN <<Item("bell", <<>>, <<>>, <<>>)>> ELSE <<>>)
                       \o <<Item("line", last_poll_string, utmp[idx'].ut_line,
                                 utmp[idx'].ut_user)>>
                  ELSE <<>>
      ]_vars

\* with -b, a scan has skipped the own terminal and reported the other login:
\* the output is one bell and one line
C20_Witness ==
    /\ options.bell # 0
    /\ last.emitted /\ idx = Len(utmp)
    /\ my_tty_path = DevPrefix \o p0
    /\ Len(out) = 2
    /\ out[1].kind = "bell" /\ out[2].kind = "line"
    /\ out[2].line = p1

====
